---------------------------- MODULE Spec2Model ----------------------------
(***************************************************************************)
(* The cubic-spline interpolation strategy of ndarray-interp               *)
(* (src/src/interp1d/strategies/cubic_spline.rs): the boundary-condition   *)
(* model, the assembly of the tridiagonal system, the Thomas solver, the   *)
(* periodic reduction, the coefficient computation and the evaluation.     *)
(*                                                                         *)
(* Arithmetic is exact: an element is a rational <<n, d>> in lowest terms  *)
(* with d > 0.  A division by zero yields what IEEE arithmetic yields:     *)
(* <<1, 0>> (+inf), <<-1, 0>> (-inf) or <<0, 0>> (NaN), and these values   *)
(* propagate through the later operations as they do in the program.       *)
(* Arrays are functions on 0..n-1, as the program indexes them.            *)
(***************************************************************************)
EXTENDS Integers, Sequences, FiniteSets, TLC

\* Bounds of the model.
MaxLen == 4
MaxCoord == 3
MaxVal == 1

\* CubicSpline::MINIMUM_DATA_LENGHT
MINIMUM_DATA_LENGHT == 3
\* The number of query points of the documented example (Array::linspace).
LinspaceN == 10

-----------------------------------------------------------------------------
(* Exact arithmetic of the element type T (SplineNum).                     *)

Abs(n) == IF n < 0 THEN -n ELSE n

Sign(n) == IF n < 0 THEN -1 ELSE IF n > 0 THEN 1 ELSE 0

RECURSIVE Gcd(_, _)
Gcd(m, n) == IF n = 0 THEN m ELSE Gcd(n, m % n)

Norm(n, d) ==
    IF d = 0 THEN <<Sign(n), 0>>
    ELSE LET g == Gcd(Abs(n), Abs(d))
         IN  <<(Sign(d) * n) \div g, Abs(d) \div g>>

R(n) == <<n, 1>>
Frac(n, d) == Norm(n, d)

zero == R(0)
one == R(1)
two == R(2)
three == R(3)

NaN == <<0, 0>>
IsFinite(a) == a[2] # 0
IsNaN(a) == a = NaN

RNeg(a) == <<-a[1], a[2]>>

RAdd(a, b) ==
    IF IsFinite(a) /\ IsFinite(b) THEN Norm(a[1] * b[2] + b[1] * a[2], a[2] * b[2])
    ELSE IF IsNaN(a) \/ IsNaN(b) THEN NaN
    ELSE IF ~IsFinite(a) /\ ~IsFinite(b) THEN (IF a = b THEN a ELSE NaN)
    ELSE IF ~IsFinite(a) THEN a ELSE b

RSub(a, b) == RAdd(a, RNeg(b))

RMul(a, b) == Norm(a[1] * b[1], a[2] * b[2])

RDiv(a, b) ==
    LET sgn == IF b[1] < 0 THEN -1 ELSE 1
    IN  Norm(a[1] * b[2] * sgn, a[2] * Abs(b[1]))

\* Pow::pow(self, two)
RSq(a) == RMul(a, a)

\* Comparisons of finite values.
RLt(a, b) == IsFinite(a) /\ IsFinite(b) /\ a[1] * b[2] < b[1] * a[2]
RLe(a, b) == IsFinite(a) /\ IsFinite(b) /\ a[1] * b[2] <= b[1] * a[2]

\* The integer part of a finite value, rounded towards zero.
RTrunc(a) == IF a[1] >= 0 THEN a[1] \div a[2] ELSE -((-a[1]) \div a[2])

\* The % operator of the element type: the remainder of the truncated division.
RRem(a, b) == RSub(a, RMul(b, R(RTrunc(RDiv(a, b)))))

\* The remainder of the truncated division in the place of rem_euclid.
rem_truncated(a, b) == RRem(a, b)

\* Euclid::rem_euclid: the least non-negative remainder.
rem_euclid(a, b) ==
    LET r == RRem(a, b)
    IN  IF RLt(r, zero) THEN RAdd(r, IF RLt(b, zero) THEN RNeg(b) ELSE b) ELSE r

-----------------------------------------------------------------------------
(* The boundary-condition model.                                           *)

\* SingleBoundary<T>: one side of one row.
SingleKinds == {"NotAKnot", "Natural", "Clamped", "FirstDeriv", "SecondDeriv"}
SingleBoundary(kind, v) == [kind |-> kind, v |-> v]
SNotAKnot == SingleBoundary("NotAKnot", zero)
SNatural == SingleBoundary("Natural", zero)
SClamped == SingleBoundary("Clamped", zero)
FirstDeriv(v) == SingleBoundary("FirstDeriv", v)
SecondDeriv(v) == SingleBoundary("SecondDeriv", v)

\* RowBoundary<T>: one row.  left and right are read for Mixed only.
RowBoundary(kind, left, right) == [kind |-> kind, left |-> left, right |-> right]
RowNotAKnot == RowBoundary("NotAKnot", SNotAKnot, SNotAKnot)
RowNatural == RowBoundary("Natural", SNotAKnot, SNotAKnot)
RowClamped == RowBoundary("Clamped", SNotAKnot, SNotAKnot)
RowMixed(left, right) == RowBoundary("Mixed", left, right)

\* InternalBoundary<T>: RowBoundary and Periodic.
InternalBoundary(kind, left, right) == [kind |-> kind, left |-> left, right |-> right]
INotAKnot == InternalBoundary("NotAKnot", SNotAKnot, SNotAKnot)
INatural == InternalBoundary("Natural", SNotAKnot, SNotAKnot)
IClamped == InternalBoundary("Clamped", SNotAKnot, SNotAKnot)
IPeriodic == InternalBoundary("Periodic", SNotAKnot, SNotAKnot)
IMixed(left, right) == InternalBoundary("Mixed", left, right)

\* SingleSpecialize with the two derivatives exchanged.
SingleSpecializeSwapped(s) ==
    CASE s.kind = "Natural" -> FirstDeriv(zero)
      [] s.kind = "Clamped" -> SecondDeriv(zero)
      [] OTHER -> s

\* SingleBoundary::specialize
SingleSpecialize(s) ==
    CASE s.kind = "Natural" -> SecondDeriv(zero)
      [] s.kind = "Clamped" -> FirstDeriv(zero)
      [] OTHER -> s

\* InternalSpecialize that leaves Clamped as it is.
InternalSpecializeKeepClamped(b) ==
    CASE b.kind = "Natural" -> IMixed(SNatural, SNatural)
      [] b.kind = "NotAKnot" -> IMixed(SNotAKnot, SNotAKnot)
      [] OTHER -> b

\* InternalBoundary::specialize
InternalSpecialize(b) ==
    CASE b.kind = "Natural" -> IMixed(SNatural, SNatural)
      [] b.kind = "NotAKnot" -> IMixed(SNotAKnot, SNotAKnot)
      [] b.kind = "Clamped" -> IMixed(SClamped, SClamped)
      [] OTHER -> b

\* FromRowBoundary with Natural and Clamped exchanged.
FromRowBoundaryExchanged(val) ==
    CASE val.kind = "NotAKnot" -> INotAKnot
      [] val.kind = "Natural" -> IClamped
      [] val.kind = "Clamped" -> INatural
      [] val.kind = "Mixed" -> IMixed(val.left, val.right)

\* impl From<RowBoundary<T>> for InternalBoundary<T>
FromRowBoundary(val) ==
    CASE val.kind = "NotAKnot" -> INotAKnot
      [] val.kind = "Natural" -> INatural
      [] val.kind = "Clamped" -> IClamped
      [] val.kind = "Mixed" -> IMixed(val.left, val.right)

\* BoundaryCondition<T, D>: the whole dataset.  bounds (an array of
\* RowBoundary of shape bshape) is read for Individual only.
BoundaryCondition(kind, bshape, bounds) ==
    [kind |-> kind, bshape |-> bshape, bounds |-> bounds]
NoBounds == [i \in {} |-> RowNotAKnot]
BNotAKnot == BoundaryCondition("NotAKnot", <<>>, NoBounds)
BNatural == BoundaryCondition("Natural", <<>>, NoBounds)
BClamped == BoundaryCondition("Clamped", <<>>, NoBounds)
BPeriodic == BoundaryCondition("Periodic", <<>>, NoBounds)
Individual(bshape, bounds) == BoundaryCondition("Individual", bshape, bounds)

-----------------------------------------------------------------------------
(* Arrays.  A data array of shape [len, nr] is data[i][r]; a row vector is *)
(* a function on 0..nr-1.                                                  *)

ALen(f) == Cardinality(DOMAIN f)
Idx(n) == 0 .. (n - 1)
Zeros1(n) == [i \in Idx(n) |-> zero]
Zeros2(n, nr) == [i \in Idx(n) |-> [r \in Idx(nr) |-> zero]]

\* dx(n) = x[n+1] - x[n]
Dx(x, n) == RSub(x[n + 1], x[n])

\* The system A * k = rhs as it is handed to the solver.
System(a_low, a_mid, a_up, rhs) ==
    [a_low |-> a_low, a_mid |-> a_mid, a_up |-> a_up, rhs |-> rhs]

-----------------------------------------------------------------------------
(* CubicSpline::thomas: forward elimination and back substitution, for     *)
(* all trailing rows of rhs at once.  The result is the array k.           *)

\* thomas whose forward elimination subtracts the row of rhs above as it
\* was given, not as the step before left it.
thomasStale(a_up, a_mid, a_low, rhs) ==
    LET len == ALen(rhs)
        nr == ALen(rhs[0])
        mid[i \in Idx(len)] ==
            IF i = 0 THEN a_mid[0]
            ELSE LET w == RDiv(a_low[i], mid[i - 1])
                 IN  RSub(a_mid[i], RMul(w, a_up[i - 1]))
        W(i) == RDiv(a_low[i], mid[i - 1])
        rhsN[i \in Idx(len)] ==
            IF i = 0 THEN rhs[0]
            ELSE [r \in Idx(nr) |-> RSub(rhs[i][r], RMul(W(i), rhs[i - 1][r]))]
        kk[j \in Idx(len)] ==
            LET i == len - 1 - j
            IN  IF j = 0
                THEN [r \in Idx(nr) |-> RDiv(rhsN[len - 1][r], mid[len - 1])]
                ELSE LET k_right == kk[j - 1]
                     IN  [r \in Idx(nr) |->
                            RDiv(RSub(rhsN[i][r], RMul(a_up[i], k_right[r])), mid[i])]
    IN  [i \in Idx(len) |-> kk[len - 1 - i]]

thomas(a_up, a_mid, a_low, rhs) ==
    LET len == ALen(rhs)
        nr == ALen(rhs[0])
        mid[i \in Idx(len)] ==
            IF i = 0 THEN a_mid[0]
            ELSE LET w == RDiv(a_low[i], mid[i - 1])
                 IN  RSub(a_mid[i], RMul(w, a_up[i - 1]))
        W(i) == RDiv(a_low[i], mid[i - 1])
        rhsN[i \in Idx(len)] ==
            IF i = 0 THEN rhs[0]
            ELSE LET w == W(i)
                     rhs_left == rhsN[i - 1]
                 IN  [r \in Idx(nr) |-> RSub(rhs[i][r], RMul(w, rhs_left[r]))]
        kk[j \in Idx(len)] ==
            \* kk[j] is row len-1-j of k
            LET i == len - 1 - j
            IN  IF j = 0
                THEN [r \in Idx(nr) |-> RDiv(rhsN[len - 1][r], mid[len - 1])]
                ELSE LET k_right == kk[j - 1]
                     IN  [r \in Idx(nr) |->
                            RDiv(RSub(rhsN[i][r], RMul(a_up[i], k_right[r])), mid[i])]
    IN  [i \in Idx(len) |-> kk[len - 1 - i]]

-----------------------------------------------------------------------------
(* CubicSpline::solve_for_k: the assembly of A and rhs for one boundary    *)
(* and the solution for the slopes k.                                      *)

NoErr == [kind |-> "none", info |-> <<>>]
ValueError(first, last) == [kind |-> "ValueError", info |-> <<first, last>>]
ShapeError(expected, got) == [kind |-> "ShapeError", info |-> <<expected, got>>]

\* What a solve returns: the error (or none), the slopes written into k,
\* the systems handed to thomas, in order, and whether an unreachable!()
\* arm was executed.
Solved(err, k, systems, unreach) ==
    [err |-> err, k |-> k, systems |-> systems, unreach |-> unreach]

\* The bands of A for the interior rows 1..len-2, zero elsewhere.
InteriorUp(x, len) ==
    [n \in Idx(len) |-> IF 1 <= n /\ n <= len - 2 THEN Dx(x, n - 1) ELSE zero]
\* InteriorMid with the width of the segment to the right only.
InteriorMidRight(x, len) ==
    [n \in Idx(len) |-> IF 1 <= n /\ n <= len - 2 THEN Dx(x, n) ELSE zero]
InteriorMid(x, len) ==
    [n \in Idx(len) |->
        IF 1 <= n /\ n <= len - 2
        THEN RMul(two, RAdd(Dx(x, n), Dx(x, n - 1))) ELSE zero]
\* InteriorLow with the width of the segment to the left, dx(n-1).
InteriorLowLeft(x, len) ==
    [n \in Idx(len) |-> IF 1 <= n /\ n <= len - 2 THEN Dx(x, n - 1) ELSE zero]
InteriorLow(x, len) ==
    [n \in Idx(len) |-> IF 1 <= n /\ n <= len - 2 THEN Dx(x, n) ELSE zero]

\* The right-hand side for the interior rows 1..len-2, zero elsewhere.
InteriorRhs(x, data, len, nr) ==
    [n \in Idx(len) |->
        IF 1 <= n /\ n <= len - 2
        THEN LET dxn == Dx(x, n)
                 dxn_1 == Dx(x, n - 1)
             IN  [r \in Idx(nr) |->
                    RMul(three,
                         RAdd(RDiv(RMul(dxn, RSub(data[n][r], data[n - 1][r])), dxn_1),
                              RDiv(RMul(dxn_1, RSub(data[n + 1][r], data[n][r])), dxn)))]
        ELSE [r \in Idx(nr) |-> zero]]

\* Row 0 of the system for the specialized left boundary.
LeftRow(x, data, nr, left) ==
    LET dx0 == Dx(x, 0)
        dx1 == Dx(x, 1)
        s == SingleSpecialize(left)
    IN  CASE s.kind = "NotAKnot" ->
               LET d == RSub(x[2], x[0])
                   tmp1 == RMul(RAdd(dx0, RMul(two, d)), dx1)
               IN  [mid |-> dx1, off |-> d, unreach |-> FALSE,
                    rhs |-> [r \in Idx(nr) |->
                        RDiv(RAdd(RDiv(RMul(tmp1, RSub(data[1][r], data[0][r])), dx0),
                                  RDiv(RMul(RSq(dx0), RSub(data[2][r], data[1][r])), dx1)),
                             d)]]
          [] s.kind = "FirstDeriv" ->
               [mid |-> one, off |-> zero, unreach |-> FALSE,
                rhs |-> [r \in Idx(nr) |-> s.v]]
          [] s.kind = "SecondDeriv" ->
               [mid |-> RMul(two, dx0), off |-> dx0, unreach |-> FALSE,
                rhs |-> [r \in Idx(nr) |->
                    RSub(RMul(three, RSub(data[1][r], data[0][r])),
                         RDiv(RMul(s.v, RSq(dx0)), two))]]
          [] OTHER ->
               [mid |-> zero, off |-> zero, unreach |-> TRUE,
                rhs |-> [r \in Idx(nr) |-> zero]]

\* Row len-1 of the system for the specialized right boundary.
RightRow(x, data, len, nr, right) ==
    LET dx_1 == Dx(x, len - 2)
        dx_2 == Dx(x, len - 3)
        s == SingleSpecialize(right)
    IN  CASE s.kind = "NotAKnot" ->
               LET d == RSub(x[len - 1], x[len - 3])
                   tmp1 == RMul(RAdd(RMul(two, d), dx_1), dx_2)
               IN  [mid |-> dx_1, off |-> d, unreach |-> FALSE,
                    rhs |-> [r \in Idx(nr) |->
                        RDiv(RAdd(RDiv(RMul(RSq(dx_1),
                                            RSub(data[len - 2][r], data[len - 3][r])), dx_2),
                                  RDiv(RMul(tmp1,
                                            RSub(data[len - 1][r], data[len - 2][r])), dx_1)),
                             d)]]
          [] s.kind = "FirstDeriv" ->
               [mid |-> one, off |-> zero, unreach |-> FALSE,
                rhs |-> [r \in Idx(nr) |-> s.v]]
          [] s.kind = "SecondDeriv" ->
               [mid |-> RMul(two, dx_1), off |-> dx_1, unreach |-> FALSE,
                rhs |-> [r \in Idx(nr) |->
                    RAdd(RMul(three, RSub(data[len - 1][r], data[len - 2][r])),
                         RDiv(RMul(s.v, RSq(dx_1)), two))]]
          [] OTHER ->
               [mid |-> zero, off |-> zero, unreach |-> TRUE,
                rhs |-> [r \in Idx(nr) |-> zero]]

\* PeriodicThree without the comparison of the first and the last sample.
PeriodicThreeUnchecked(x, data, nr) ==
    LET dx0 == Dx(x, 0)
        dx1 == Dx(x, 1)
        slope0 == [r \in Idx(nr) |-> RDiv(RSub(data[1][r], data[0][r]), dx0)]
        slope1 == [r \in Idx(nr) |-> RDiv(RSub(data[2][r], data[1][r]), dx1)]
        row == [r \in Idx(nr) |->
                  RDiv(RAdd(RDiv(slope0[r], dx0), RDiv(slope1[r], dx1)),
                       RAdd(RDiv(one, dx0), RDiv(one, dx1)))]
    IN  Solved(NoErr, [i \in Idx(3) |-> row], <<>>, FALSE)

\* (InternalBoundary::Periodic, 3): the closed form.
PeriodicThree(x, data, nr) ==
    LET dx0 == Dx(x, 0)
        dx1 == Dx(x, 1)
        slope0 == [r \in Idx(nr) |-> RDiv(RSub(data[1][r], data[0][r]), dx0)]
        slope1 == [r \in Idx(nr) |-> RDiv(RSub(data[2][r], data[1][r]), dx1)]
        row == [r \in Idx(nr) |->
                  RDiv(RAdd(RDiv(slope0[r], dx0), RDiv(slope1[r], dx1)),
                       RAdd(RDiv(one, dx0), RDiv(one, dx1)))]
    IN  IF data[0] # data[2]
        THEN Solved(ValueError(data[0], data[2]), Zeros2(3, nr), <<>>, FALSE)
        ELSE Solved(NoErr, [i \in Idx(3) |-> row], <<>>, FALSE)

\* Self::thomas(k, a_up, a_mid, a_low, rhs) for an assembled system: the
\* slopes and the system that was solved.
SolveSystem(sys) ==
    Solved(NoErr, thomas(sys.a_up, sys.a_mid, sys.a_low, sys.rhs), <<sys>>, FALSE)

\* (InternalBoundary::Periodic, _): the bands of the condensed system of
\* len-2 equations; rhs is empty here.
PeriodicBands(x, len) ==
    LET dx0 == Dx(x, 0)
        dx_1 == Dx(x, len - 2)
    IN  System([n \in Idx(len - 2) |-> InteriorLow(x, len)[n]],
               [n \in Idx(len - 2) |->
                   IF n = 0 THEN RMul(two, RAdd(dx_1, dx0)) ELSE InteriorMid(x, len)[n]],
               [n \in Idx(len - 2) |-> IF n = 0 THEN dx_1 ELSE InteriorUp(x, len)[n]],
               <<>>)

\* rhs, sliced to the rows 0..len-2, with its first and last row set.
PeriodicRhs(x, data, len, nr) ==
    LET dx0 == Dx(x, 0)
        dx_1 == Dx(x, len - 2)
        dx_2 == Dx(x, len - 3)
        slope0(r) == RDiv(RSub(data[1][r], data[0][r]), dx0)
        slope_1(r) == RDiv(RSub(data[len - 1][r], data[len - 2][r]), dx_1)
        slope_2(r) == RDiv(RSub(data[len - 2][r], data[len - 3][r]), dx_2)
    IN  [n \in Idx(len - 1) |->
            IF n = len - 2
            THEN [r \in Idx(nr) |->
                    RMul(RAdd(RMul(slope_2(r), dx_1), RMul(slope_1(r), dx_2)), three)]
            ELSE IF n = 0
            THEN [r \in Idx(nr) |->
                    RMul(RAdd(RMul(slope_1(r), dx0), RMul(slope0(r), dx_1)), three)]
            ELSE InteriorRhs(x, data, len, nr)[n]]

\* rhs2: -dx0 in row 0, -dx_3 in row len-3, zero elsewhere.
PeriodicRhs2(x, len, nr) ==
    [n \in Idx(len - 2) |->
        [r \in Idx(nr) |->
            IF n = len - 3 THEN RNeg(Dx(x, len - 4))
            ELSE IF n = 0 THEN RNeg(Dx(x, 0)) ELSE zero]]

\* PeriodicKm1 with dx_1 and dx_2 exchanged in the numerator.
PeriodicKm1Exchanged(x, len, nr, rhs, k1, k2) ==
    LET dx_1 == Dx(x, len - 2)
        dx_2 == Dx(x, len - 3)
    IN  [r \in Idx(nr) |->
            RDiv(RSub(RSub(rhs[len - 2][r], RMul(k1[0][r], dx_1)),
                      RMul(k1[len - 3][r], dx_2)),
                 RAdd(RAdd(RMul(k2[0][r], dx_2), RMul(k2[len - 3][r], dx_1)),
                      RMul(two, RAdd(dx_1, dx_2))))]

\* k_m1, the slope at len-2, from the last equation of the cyclic system.
PeriodicKm1(x, len, nr, rhs, k1, k2) ==
    LET dx_1 == Dx(x, len - 2)
        dx_2 == Dx(x, len - 3)
    IN  [r \in Idx(nr) |->
            RDiv(RSub(RSub(rhs[len - 2][r], RMul(k1[0][r], dx_2)),
                      RMul(k1[len - 3][r], dx_1)),
                 RAdd(RAdd(RMul(k2[0][r], dx_2), RMul(k2[len - 3][r], dx_1)),
                      RMul(two, RAdd(dx_1, dx_2))))]

\* k: k1 + k_m1 * k2 in the rows 0..len-3, k_m1 in row len-2, row 0 again
\* in row len-1.
PeriodicK(len, nr, k1, k2, k_m1) ==
    [n \in Idx(len) |->
        IF n = len - 2 THEN k_m1
        ELSE LET m == IF n = len - 1 THEN 0 ELSE n
             IN  [r \in Idx(nr) |-> RAdd(k1[m][r], RMul(k_m1[r], k2[m][r]))]]

PeriodicCombine(x, len, nr, rhs, k1, k2) ==
    PeriodicK(len, nr, k1, k2, PeriodicKm1(x, len, nr, rhs, k1, k2))

PeriodicSolve(x, len, nr, bands, rhs, rhs2) ==
    Solved(NoErr,
           PeriodicCombine(x, len, nr, rhs,
               thomas(bands.a_up, bands.a_mid, bands.a_low,
                      [n \in Idx(len - 2) |-> rhs[n]]),
               thomas(bands.a_up, bands.a_mid, bands.a_low, rhs2)),
           <<System(bands.a_low, bands.a_mid, bands.a_up,
                    [n \in Idx(len - 2) |-> rhs[n]]),
             System(bands.a_low, bands.a_mid, bands.a_up, rhs2)>>,
           FALSE)

PeriodicGeneral(x, data, len, nr) ==
    IF data[0] # data[len - 1]
    THEN Solved(ValueError(data[0], data[len - 1]), Zeros2(len, nr), <<>>, FALSE)
    ELSE PeriodicSolve(x, len, nr, PeriodicBands(x, len),
                       PeriodicRhs(x, data, len, nr), PeriodicRhs2(x, len, nr))

\* ParabolaThree with dx0 and dx1 exchanged in the bands of row 1.
ParabolaThreeSwapped(x, data, nr) ==
    LET dx0 == Dx(x, 0)
        dx1 == Dx(x, 1)
        slope0(r) == RDiv(RSub(data[1][r], data[0][r]), dx0)
        slope1(r) == RDiv(RSub(data[2][r], data[1][r]), dx1)
    IN  SolveSystem(System(
            [n \in Idx(3) |-> IF n = 1 THEN dx0 ELSE IF n = 2 THEN one ELSE zero],
            [n \in Idx(3) |-> IF n = 1 THEN RMul(two, RAdd(dx0, dx1)) ELSE one],
            [n \in Idx(3) |-> IF n = 0 THEN one ELSE IF n = 1 THEN dx1 ELSE zero],
            [n \in Idx(3) |->
                [r \in Idx(nr) |->
                    IF n = 0 THEN RMul(slope0(r), two)
                    ELSE IF n = 1
                    THEN RMul(RAdd(RMul(slope1(r), dx0), RMul(slope0(r), dx1)), three)
                    ELSE RMul(slope1(r), two)]]))

\* (Mixed { left: NotAKnot, right: NotAKnot }, 3): the parabola through
\* the three points.
ParabolaThree(x, data, nr) ==
    LET dx0 == Dx(x, 0)
        dx1 == Dx(x, 1)
        slope0(r) == RDiv(RSub(data[1][r], data[0][r]), dx0)
        slope1(r) == RDiv(RSub(data[2][r], data[1][r]), dx1)
    IN  SolveSystem(System(
            [n \in Idx(3) |-> IF n = 1 THEN dx1 ELSE IF n = 2 THEN one ELSE zero],
            [n \in Idx(3) |-> IF n = 1 THEN RMul(two, RAdd(dx0, dx1)) ELSE one],
            [n \in Idx(3) |-> IF n = 0 THEN one ELSE IF n = 1 THEN dx0 ELSE zero],
            [n \in Idx(3) |->
                [r \in Idx(nr) |->
                    IF n = 0 THEN RMul(slope0(r), two)
                    ELSE IF n = 1
                    THEN RMul(RAdd(RMul(slope1(r), dx0), RMul(slope0(r), dx1)), three)
                    ELSE RMul(slope1(r), two)]]))

\* (Mixed { left, right }, _): the interior rows with row 0 from the left
\* and row len-1 from the right boundary.
MixedSystem(x, data, len, nr, l, rt) ==
    System([n \in Idx(len) |-> IF n = len - 1 THEN rt.off ELSE InteriorLow(x, len)[n]],
           [n \in Idx(len) |->
               IF n = 0 THEN l.mid
               ELSE IF n = len - 1 THEN rt.mid ELSE InteriorMid(x, len)[n]],
           [n \in Idx(len) |-> IF n = 0 THEN l.off ELSE InteriorUp(x, len)[n]],
           [n \in Idx(len) |->
               IF n = 0 THEN l.rhs
               ELSE IF n = len - 1 THEN rt.rhs ELSE InteriorRhs(x, data, len, nr)[n]])

MixedSolve(x, data, len, nr, l, rt) ==
    IF l.unreach \/ rt.unreach
    THEN Solved(NoErr, Zeros2(len, nr), <<>>, TRUE)
    ELSE SolveSystem(MixedSystem(x, data, len, nr, l, rt))

MixedGeneral(x, data, len, nr, left, right) ==
    MixedSolve(x, data, len, nr,
               LeftRow(x, data, nr, left), RightRow(x, data, len, nr, right))

solve_for_k(x, data, boundary) ==
    LET len == ALen(data)
        nr == ALen(data[0])
        b == InternalSpecialize(boundary)
    IN  CASE b.kind = "Periodic" /\ len = 3 -> PeriodicThree(x, data, nr)
          [] b.kind = "Periodic" /\ len # 3 -> PeriodicGeneral(x, data, len, nr)
          [] b.kind \in {"Clamped", "Natural", "NotAKnot"} ->
               Solved(NoErr, Zeros2(len, nr), <<>>, TRUE)
          [] b.kind = "Mixed" /\ b.left.kind = "NotAKnot"
                /\ b.right.kind = "NotAKnot" /\ len = 3 ->
               ParabolaThree(x, data, nr)
          [] OTHER -> MixedGeneral(x, data, len, nr, b.left, b.right)

-----------------------------------------------------------------------------
(* CubicSpline::solve_for_k_individual and CubicSpline::calc_coefficients. *)

Repeat(n, what) == [i \in 1 .. n |-> what]

\* Column r of a [len, nr] array, as a [len, 1] array.
Column(data, r) == [i \in DOMAIN data |-> [c \in Idx(1) |-> data[i][r]]]

\* The result of the solve for a row (or for the dataset): the error, the
\* slopes, the systems solved and the functions entered.
Slopes(err, k, systems, calls, unreach) ==
    [err |-> err, k |-> k, systems |-> systems, calls |-> calls, unreach |-> unreach]

\* Row r with its own boundary: the recursion reaches a one-dimensional k
\* and calls solve_for_k.  boundary.first() is None on an array without
\* elements.
IndividualRow(x, data, bounds, r) ==
    IF ALen(bounds) = 0
    THEN Solved(NoErr, Zeros2(ALen(data), 1), <<>>, TRUE)
    ELSE solve_for_k(x, Column(data, r), FromRowBoundary(bounds[0][r]))

\* The accumulator of the fold after row r was solved as s.
FoldStep(data, r, acc, s) ==
    Slopes(s.err,
           [i \in DOMAIN data |->
               [c \in DOMAIN data[0] |-> IF c = r THEN s.k[i][0] ELSE acc.k[i][c]]],
           acc.systems \o s.systems,
           acc.calls \o <<"solve_for_k_individual", "solve_for_k">>
               \o Repeat(Len(s.systems), "thomas"),
           s.unreach)

\* The fold over the rows 0..nr-1 of the last axis, which ends at the first
\* error.
RECURSIVE IndividualFold(_, _, _, _, _)
IndividualFold(x, data, bounds, r, acc) ==
    IF r = ALen(data[0]) \/ acc.err.kind # "none" \/ acc.unreach THEN acc
    ELSE IndividualFold(x, data, bounds, r + 1,
                        FoldStep(data, r, acc, IndividualRow(x, data, bounds, r)))

solve_for_k_individual(x, data, bounds) ==
    IndividualFold(x, data, bounds, 0,
        Slopes(NoErr, Zeros2(ALen(data), ALen(data[0])), <<>>,
               <<"solve_for_k_individual">>, FALSE))

\* The InternalBoundary calc_coefficients passes for a dataset-wide boundary.
DatasetBoundary(boundary) ==
    CASE boundary.kind = "Periodic" -> IPeriodic
      [] boundary.kind = "Natural" -> INatural
      [] boundary.kind = "Clamped" -> IClamped
      [] boundary.kind = "NotAKnot" -> INotAKnot

Whole(s) ==
    Slopes(s.err, s.k, s.systems,
           <<"solve_for_k">> \o Repeat(Len(s.systems), "thomas"), s.unreach)

\* SlopesFor with a shape check that looks at the leading axis only.
SlopesForLeadingAxis(x, data, boundary) ==
    IF boundary.kind = "Individual"
    THEN IF 1 # boundary.bshape[1]
         THEN Slopes(ShapeError(<<1, ALen(data[0])>>, boundary.bshape),
                     Zeros2(ALen(data), ALen(data[0])), <<>>, <<>>, FALSE)
         ELSE solve_for_k_individual(x, data, boundary.bounds)
    ELSE Whole(solve_for_k(x, data, DatasetBoundary(boundary)))

\* The match on self.boundary in calc_coefficients.
SlopesFor(x, data, boundary) ==
    IF boundary.kind = "Individual"
    THEN IF <<1, ALen(data[0])>> # boundary.bshape
         THEN Slopes(ShapeError(<<1, ALen(data[0])>>, boundary.bshape),
                     Zeros2(ALen(data), ALen(data[0])), <<>>, <<>>, FALSE)
         ELSE solve_for_k_individual(x, data, boundary.bounds)
    ELSE Whole(solve_for_k(x, data, DatasetBoundary(boundary)))

\* c_a[index] = k * dx - dy and c_b[index] = dy - k_right * dx
CoeffA(x, data, k) ==
    [index \in Idx(ALen(data) - 1) |->
        [r \in DOMAIN data[0] |->
            RSub(RMul(k[index][r], RSub(x[index + 1], x[index])),
                 RSub(data[index + 1][r], data[index][r]))]]
CoeffB(x, data, k) ==
    [index \in Idx(ALen(data) - 1) |->
        [r \in DOMAIN data[0] |->
            RSub(RSub(data[index + 1][r], data[index][r]),
                 RMul(k[index + 1][r], RSub(x[index + 1], x[index])))]]

NoArray == [i \in {} |-> zero]

\* The coefficients for the slopes s, or the error of the solve.
Coefficients(x, data, s) ==
    IF s.err.kind = "none" /\ ~s.unreach
    THEN [err |-> s.err, unreach |-> s.unreach, systems |-> s.systems,
          calls |-> s.calls, k |-> s.k,
          a |-> CoeffA(x, data, s.k), b |-> CoeffB(x, data, s.k)]
    ELSE [err |-> s.err, unreach |-> s.unreach, systems |-> s.systems,
          calls |-> s.calls, k |-> NoArray, a |-> NoArray, b |-> NoArray]

calc_coefficients(x, data, boundary) ==
    Coefficients(x, data, SlopesFor(x, data, boundary))

\* ExtrapolateMode that looks at the boundary before the flag.
ExtrapolateModeBoundaryFirst(extrapolate, boundary) ==
    IF boundary.kind = "Periodic" THEN "Periodic"
    ELSE IF ~extrapolate THEN "No"
    ELSE "Yes"

\* The extrapolation mode chosen by build.
ExtrapolateMode(extrapolate, boundary) ==
    IF ~extrapolate THEN "No"
    ELSE IF boundary.kind = "Periodic" THEN "Periodic"
    ELSE "Yes"

-----------------------------------------------------------------------------
(* The interpolator that owns x and data (Interp1D), as far as the         *)
(* strategy uses it.                                                       *)

\* Interp1D::is_in_range
is_in_range(x, q) == RLe(x[0], q) /\ RLe(q, x[ALen(x) - 1])

\* Interp1D::get_index_left_of: a segment that encloses q, the first or the
\* last segment for a q outside of the range.  At an interior sample
\* coordinate either neighbour may be the answer.
get_index_left_of(x, q) ==
    LET len == ALen(x)
    IN  IF RLt(q, x[0]) THEN {0}
        ELSE IF RLt(x[len - 1], q) THEN {len - 2}
        ELSE {i \in Idx(len - 1) : RLe(x[i], q) /\ RLe(q, x[i + 1])}

\* Interp1D::index_point
index_point(x, data, i) == <<x[i], data[i]>>

-----------------------------------------------------------------------------
(* CubicSplineStrategy::interp_into.                                       *)

\* The coordinate that is looked up: folded into the range in Periodic mode.
FoldQuery(x, mode, q) ==
    IF mode = "Periodic" /\ ~is_in_range(x, q)
    THEN LET x0 == x[0]
             xn == x[ALen(x) - 1]
         IN  RAdd(rem_euclid(RSub(q, x0), RSub(xn, x0)), x0)
    ELSE q

\* The row written to the target for the segment idx.
EvalRow(x, data, a, b, idx, xq) ==
    LET left == index_point(x, data, idx)
        right == index_point(x, data, idx + 1)
        t == RDiv(RSub(xq, left[1]), RSub(right[1], left[1]))
        u == RSub(one, t)
    IN  [r \in DOMAIN data[0] |->
            RAdd(RAdd(RMul(u, left[2][r]), RMul(t, right[2][r])),
                 RMul(RMul(t, u), RAdd(RMul(a[idx][r], u), RMul(b[idx][r], t))))]

-----------------------------------------------------------------------------
(* The state: a builder (x, data, boundary, extrapolate), the strategy it  *)
(* builds (a, b, mode) and the last evaluation.                            *)

VARIABLES
    x,            \* the coordinates
    data,         \* the data, data[i][r]
    boundary,     \* CubicSpline.boundary
    extrapolate,  \* CubicSpline.extrapolate
    phase,        \* "new", "built", "failed" (build returned Err), "panicked"
    err,          \* the BuilderError returned by build
    a,            \* CubicSplineStrategy.a
    b,            \* CubicSplineStrategy.b
    mode,         \* CubicSplineStrategy.extrapolate
    k,            \* the slopes calc_coefficients solved for
    systems,      \* the systems handed to thomas during build, in order
    calls,        \* the functions build entered, in order
    query,        \* the x of the last interp_into
    xq,           \* the coordinate it looked up
    idx,          \* the segment it used
    target,       \* the caller's target row
    res           \* "none", "Ok" or "OutOfBounds"

vars == <<x, data, boundary, extrapolate, phase, err, a, b, mode, k, systems,
          calls, query, xq, idx, target, res>>

builder == <<x, data, boundary, extrapolate>>
strategy == <<a, b, mode>>
built == <<phase, err, a, b, mode, k, systems, calls>>
lastEval == <<query, xq, idx, target, res>>

Case(cx, cdata, cboundary, cextrapolate) ==
    [x |-> cx, data |-> cdata, boundary |-> cboundary, extrapolate |-> cextrapolate]

InitOf(cases) ==
    \E c \in cases :
        /\ x = c.x
        /\ data = c.data
        /\ boundary = c.boundary
        /\ extrapolate = c.extrapolate
        /\ phase = "new"
        /\ err = NoErr
        /\ a = NoArray
        /\ b = NoArray
        /\ mode = "none"
        /\ k = NoArray
        /\ systems = <<>>
        /\ calls = <<>>
        /\ query = zero
        /\ xq = zero
        /\ idx = 0
        /\ target = [r \in DOMAIN c.data[0] |-> zero]
        /\ res = "none"

\* What build stores for the result c of calc_coefficients.
BuildWith(c) ==
    /\ phase' = IF c.unreach THEN "panicked"
                ELSE IF c.err.kind # "none" THEN "failed" ELSE "built"
    /\ err' = c.err
    /\ a' = c.a
    /\ b' = c.b
    /\ k' = c.k
    /\ systems' = c.systems
    /\ calls' = c.calls
    /\ mode' = IF c.unreach \/ c.err.kind # "none" THEN "none"
               ELSE ExtrapolateMode(extrapolate, boundary)

\* Interp1DStrategyBuilder::build
Build ==
    /\ phase = "new"
    /\ BuildWith(calc_coefficients(x, data, boundary))
    /\ UNCHANGED <<builder, lastEval>>

\* The evaluation of the coordinate fx, in a segment that encloses it.
Evaluate(fx) ==
    \E i \in get_index_left_of(x, fx) :
        /\ xq' = fx
        /\ idx' = i
        /\ target' = EvalRow(x, data, a, b, i, fx)
        /\ res' = "Ok"

\* InterpInto without the range check of Extrapolate::No.
InterpIntoUnchecked(q) ==
    /\ phase = "built"
    /\ query' = q
    /\ Evaluate(FoldQuery(x, mode, q))
    /\ UNCHANGED <<builder, built>>

\* InterpInto that zeroes the target before it returns OutOfBounds.
InterpIntoClearing(q) ==
    /\ phase = "built"
    /\ query' = q
    /\ IF mode = "No" /\ ~is_in_range(x, q)
       THEN /\ res' = "OutOfBounds"
            /\ target' = [r \in DOMAIN target |-> zero]
            /\ UNCHANGED <<xq, idx>>
       ELSE Evaluate(FoldQuery(x, mode, q))
    /\ UNCHANGED <<builder, built>>

\* Interp1DStrategy::interp_into(interp, target, q)
InterpInto(q) ==
    /\ phase = "built"
    /\ query' = q
    /\ IF mode = "No" /\ ~is_in_range(x, q)
       THEN /\ res' = "OutOfBounds"
            /\ UNCHANGED <<xq, idx, target>>
       ELSE Evaluate(FoldQuery(x, mode, q))
    /\ UNCHANGED <<builder, built>>

-----------------------------------------------------------------------------
(* The inputs.                                                             *)

\* The array of a sequence.
Arr(seq) == [i \in Idx(Len(seq)) |-> seq[i + 1]]

Lens == MINIMUM_DATA_LENGHT .. MaxLen

\* The strictly increasing coordinates of length len on the grid 0..MaxCoord.
GridXs(len) ==
    {[i \in Idx(len) |-> R(g[i])] :
        g \in {h \in [Idx(len) -> 0 .. MaxCoord] :
                 \A i \in 1 .. (len - 1) : h[i - 1] < h[i]}}

\* The coordinates and the data of the documented example.
DocX == Arr(<<R(-1), R(0), R(3)>>)
DocRow == Arr(<<Frac(1, 2), R(0), R(3)>>)

\* Coordinates with segments of very different widths: 40, 5 and 3.
SkewedX == Arr(<<R(0), R(40), R(45), R(48)>>)

Xs == UNION {GridXs(len) : len \in Lens} \cup {DocX, SkewedX}

Vals == {R(v) : v \in 0 .. MaxVal}
Ramp(len) == [i \in Idx(len) |-> R(i)]
\* The row with v at the index at and zero elsewhere.
Spike(len, at, v) == [i \in Idx(len) |-> IF i = at THEN v ELSE zero]
\* The rows of data: the spline is linear in the data, and these rows span
\* every row.
DataRows(len) == {Spike(len, at, v) : at \in Idx(len), v \in Vals} \cup {Ramp(len)}
Rev(row) == [i \in DOMAIN row |-> row[ALen(row) - 1 - i]]
OneRow(row) == [i \in DOMAIN row |-> [r \in Idx(1) |-> row[i]]]
TwoRows(row0, row1) ==
    [i \in DOMAIN row0 |-> [r \in Idx(2) |-> IF r = 0 THEN row0[i] ELSE row1[i]]]

\* The data arrays of one row, and those of two rows whose second row is a
\* ramp or the first row reversed.
DataArrays(len) ==
    {OneRow(w) : w \in DataRows(len)}
        \cup {TwoRows(w, Ramp(len)) : w \in DataRows(len)}
        \cup {TwoRows(w, Rev(w)) : w \in DataRows(len)}

DocData == OneRow(DocRow)

Half == Frac(1, 2)

\* Array::linspace(lo, hi, n)
Linspace(lo, hi, n) ==
    {RAdd(lo, RDiv(RMul(R(i), RSub(hi, lo)), R(n - 1))) : i \in Idx(n)}

\* The queries: the sample coordinates, the midpoints of the segments and
\* five coordinates outside of the range, one of them a period right of
\* x[1]; for the documented example also its ten evenly spaced queries.
Midpoints(cx) == {RDiv(RAdd(cx[i], cx[i + 1]), two) : i \in Idx(ALen(cx) - 1)}

Queries(cx) ==
    LET len == ALen(cx)
        x0 == cx[0]
        xn == cx[len - 1]
        period == RSub(xn, x0)
    IN  {cx[i] : i \in Idx(len)}
            \cup Midpoints(cx)
            \cup {RSub(x0, Half), RSub(x0, period), RAdd(xn, Half),
                  RAdd(RAdd(xn, period), Half), RAdd(cx[1], period)}
            \cup (IF cx = DocX THEN Linspace(x0, xn, LinspaceN) ELSE {})

Next == Build \/ \E q \in Queries(x) : InterpInto(q)

\* build, and interp_into at the midpoints of the segments only.
NextMidpoints == Build \/ \E q \in Midpoints(x) : InterpInto(q)

-----------------------------------------------------------------------------
(* The dataset-wide NotAKnot boundary.                                     *)

CasesNotAKnot ==
    {Case(cx, cd, BNotAKnot, e) :
        cx \in Xs, cd \in UNION {DataArrays(len) : len \in Lens}, e \in BOOLEAN}

InitNotAKnot ==
    InitOf({c \in CasesNotAKnot : ALen(c.x) = ALen(c.data)}
             \cup {Case(DocX, DocData, BNotAKnot, FALSE)})

SpecNotAKnot == InitNotAKnot /\ [][Next]_vars

-----------------------------------------------------------------------------
(* Claims about the dataset-wide NotAKnot boundary.                        *)

\* The last interp_into succeeded and looked up the coordinate it was given.
EvaluatedAt(q) == phase = "built" /\ res = "Ok" /\ query = q /\ xq = q

\* C1: with boundary = NotAKnot, evaluating at the sample coordinate x[j]
\* writes exactly data[j] to the target, in every row, whichever enclosing
\* segment the lookup picked.
C1_SamplesReproduced ==
    \A j \in DOMAIN x :
        (boundary.kind = "NotAKnot" /\ EvaluatedAt(x[j])) => target = data[j]

\* The parabola through the three points (x[i], data[i][r]) at q, by
\* Lagrange's formula.
Parabola(r, q) ==
    LET term(i, j, m) ==
            RMul(data[i][r],
                 RDiv(RMul(RSub(q, x[j]), RSub(q, x[m])),
                      RMul(RSub(x[i], x[j]), RSub(x[i], x[m]))))
    IN  RAdd(RAdd(term(0, 1, 2), term(1, 0, 2)), term(2, 0, 1))

\* 0.375 * q^2 - 0.125 * q
DocParabola(q) == RSub(RMul(Frac(3, 8), RSq(q)), RMul(Frac(1, 8), q))

\* C8: for len = 3 and NotAKnot on both sides the spline is the parabola
\* through the three points: both segments have no cubic term (a = b) and
\* every value evaluated on [x[0], x[2]] is the parabola's; for the
\* documented example the values at its queries are 0.375 q^2 - 0.125 q.
C8_ThreePointParabola ==
    (phase = "built" /\ boundary.kind = "NotAKnot" /\ ALen(x) = 3) =>
        /\ a = b
        /\ (res = "Ok" /\ is_in_range(x, query)) =>
               \A r \in DOMAIN target : target[r] = Parabola(r, query)
        /\ (res = "Ok" /\ x = DocX /\ data = DocData) =>
               target[0] = DocParabola(query)

\* C8 witness: the second query of the documented example, -5/9, gives
\* 0.185185... = 5/27.
C8_Witness ==
    /\ x = DocX /\ data = DocData /\ boundary.kind = "NotAKnot"
    /\ EvaluatedAt(Frac(-5, 9))
    /\ target[0] = Frac(5, 27)

-----------------------------------------------------------------------------
(* Every kind of boundary, with and without extrapolation.                 *)

\* The [1, nr] array of row boundaries whose every entry is row.
UniformBounds(nr, row) == [i \in Idx(1) |-> [r \in Idx(nr) |-> row]]

\* BoundaryCondition::Individual with every row set to row.
IndividualAll(nr, row) == Individual(<<1, nr>>, UniformBounds(nr, row))

\* Coordinates on the grid with one row of data of the same length, and
\* the documented example.
OneRowInputs ==
    UNION {{<<cx, OneRow(w)>> : cx \in GridXs(len), w \in DataRows(len)} :
           len \in Lens}
        \cup {<<DocX, DocData>>}

BoundaryKinds ==
    {BNotAKnot, BNatural, BClamped, BPeriodic, IndividualAll(1, RowNatural)}

CasesExtrapolate ==
    {Case(in[1], in[2], bc, e) :
        in \in OneRowInputs, bc \in BoundaryKinds, e \in BOOLEAN}

InitExtrapolate == InitOf(CasesExtrapolate)

SpecExtrapolate == InitExtrapolate /\ [][Next]_vars

\* interp_into was called on the built strategy; query is its coordinate.
Evaluated == phase = "built" /\ res # "none"

\* C2: a query outside of [x[0], x[len-1]] fails with OutOfBounds when the
\* strategy was built with extrapolate = false, and returns Ok with the
\* value of the first or the last segment's polynomial when it was built
\* with extrapolate = true and a boundary other than Periodic.
C2_OutOfRange ==
    (Evaluated /\ ~is_in_range(x, query)) =>
        /\ ~extrapolate => res = "OutOfBounds"
        /\ (extrapolate /\ boundary.kind # "Periodic") =>
               /\ res = "Ok"
               /\ xq = query
               /\ idx = (IF RLt(query, x[0]) THEN 0 ELSE ALen(x) - 2)
               /\ target = EvalRow(x, data, a, b, idx, query)

\* C2 witness: the documented example, built without extrapolation, was
\* asked for the value at 3.5 and answered OutOfBounds.
C2_Witness ==
    /\ x = DocX /\ data = DocData /\ ~extrapolate
    /\ Evaluated /\ query = Frac(7, 2) /\ res = "OutOfBounds"

ModeOf(flag, kind) ==
    IF flag /\ kind = "Periodic" THEN "Periodic"
    ELSE IF flag THEN "Yes" ELSE "No"

\* C9: the mode build stores is Periodic exactly when the flag is true and
\* the boundary is Periodic, No when the flag is false (an out-of-range
\* query is then rejected, for a Periodic boundary too) and Yes when the
\* flag is true and the boundary is not Periodic; no later step changes it.
C9_ModeFromFlagAndBoundary ==
    /\ [](phase = "built" =>
            /\ mode = ModeOf(extrapolate, boundary.kind)
            /\ (mode = "Periodic") <=> (extrapolate /\ boundary.kind = "Periodic")
            /\ (~extrapolate /\ res # "none" /\ ~is_in_range(x, query)) =>
                   res = "OutOfBounds")
    /\ [][phase = "built" => mode' = mode]_vars

\* C9 witness: a Periodic boundary built with extrapolate = false is in
\* mode No and rejected a query left of the range.
C9_Witness ==
    /\ phase = "built" /\ boundary.kind = "Periodic" /\ ~extrapolate
    /\ mode = "No" /\ res = "OutOfBounds" /\ RLt(query, x[0])

-----------------------------------------------------------------------------
(* The Periodic boundary.                                                  *)

\* Coordinates on the grid with data of one or two rows; the first and the
\* last sample are equal in some of the data and differ in others.
GridInputs ==
    UNION {{<<cx, cd>> : cx \in GridXs(len), cd \in DataArrays(len)} : len \in Lens}

CasesPeriodic ==
    {Case(in[1], in[2], BPeriodic, e) : in \in GridInputs, e \in BOOLEAN}

InitPeriodic == InitOf(CasesPeriodic)

SpecPeriodic == InitPeriodic /\ [][Next]_vars

\* C3: with boundary = Periodic, when data[0] and data[len-1] differ in
\* some row build returns a ValueError (with the two samples), produces no
\* strategy and has not called thomas; when they are equal in every row
\* build returns no ValueError.
C3_PeriodicNeedsEqualEnds ==
    (phase # "new" /\ boundary.kind = "Periodic") =>
        IF \E r \in DOMAIN data[0] : data[0][r] # data[ALen(data) - 1][r]
        THEN /\ phase = "failed"
             /\ err = ValueError(data[0], data[ALen(data) - 1])
             /\ a = NoArray /\ b = NoArray /\ mode = "none"
             /\ systems = <<>>
             /\ \A i \in DOMAIN calls : calls[i] # "thomas"
        ELSE err.kind # "ValueError"

\* C3 witness: four samples in two rows; the first row ends as it starts,
\* the second does not, and build failed with the ValueError.
C3_Witness ==
    /\ boundary.kind = "Periodic" /\ ALen(data) = 4 /\ ALen(data[0]) = 2
    /\ data[0][0] = data[3][0] /\ data[0][1] # data[3][1]
    /\ phase = "failed" /\ err.kind = "ValueError"

\* q differs from p by an integer multiple of period.
SamePhase(q, p, period) == RDiv(RSub(q, p), period)[2] = 1

\* C10: in Periodic mode a query outside of the range is looked up at the
\* folded coordinate xq, with x[0] <= xq < x[len-1] and query - xq an
\* integer multiple of the period, and the value written is the value of
\* xq in every segment that encloses xq; a query in the range is looked up
\* as it is.
C10_PeriodicFold ==
    (Evaluated /\ mode = "Periodic") =>
        /\ res = "Ok"
        /\ is_in_range(x, query) => xq = query
        /\ ~is_in_range(x, query) =>
               /\ xq = RAdd(rem_euclid(RSub(query, x[0]),
                                       RSub(x[ALen(x) - 1], x[0])), x[0])
               /\ RLe(x[0], xq) /\ RLt(xq, x[ALen(x) - 1])
               /\ SamePhase(query, xq, RSub(x[ALen(x) - 1], x[0]))
               /\ \A i \in get_index_left_of(x, xq) :
                      target = EvalRow(x, data, a, b, i, xq)

\* C10 witness: four samples; the query one period right of x[1] was
\* folded onto x[1] and got the sample there.
C10_Witness ==
    /\ Evaluated /\ mode = "Periodic" /\ ALen(x) = 4
    /\ query = RAdd(x[1], RSub(x[3], x[0])) /\ xq = x[1]
    /\ target = data[1] /\ data[1] # data[0]

-----------------------------------------------------------------------------
(* Boundaries per row (Individual), Natural and Clamped.                   *)

\* The values of the prescribed derivatives.
DerivVals == {R(MaxVal)}

Singles ==
    {SNotAKnot, SNatural, SClamped}
        \cup {FirstDeriv(v) : v \in DerivVals}
        \cup {SecondDeriv(v) : v \in DerivVals}

RowBoundaries ==
    {RowNotAKnot, RowNatural, RowClamped}
        \cup {RowMixed(l, rt) : l \in Singles, rt \in Singles}

\* The [1, 2] array of the row boundaries row0 and row1.
TwoBounds(row0, row1) ==
    [i \in Idx(1) |-> [r \in Idx(2) |-> IF r = 0 THEN row0 ELSE row1]]

\* Pairs of row boundaries for data of two rows: the uniform conditions and
\* rows that differ from each other.
RowPairs ==
    {<<c, c>> : c \in {RowNotAKnot, RowNatural, RowClamped}}
        \cup {<<RowNatural, RowMixed(FirstDeriv(v), SNotAKnot)>> : v \in DerivVals}
        \cup {<<RowMixed(SClamped, SecondDeriv(v)), RowClamped>> : v \in DerivVals}
        \cup {<<RowMixed(SecondDeriv(v), SNatural), RowNotAKnot>> : v \in DerivVals}

TwoRowInputs ==
    UNION {{<<cx, TwoRows(w, Ramp(len))>> : cx \in GridXs(len), w \in DataRows(len)} :
           len \in Lens}

\* Individual boundaries of the shape of the data, and of another shape:
\* one column too many, or a leading axis of 2.
CasesIndividual ==
    {Case(in[1], in[2], IndividualAll(1, row), TRUE) :
        in \in OneRowInputs, row \in RowBoundaries}
        \cup {Case(in[1], in[2], Individual(<<1, 2>>, TwoBounds(p[1], p[2])), TRUE) :
                in \in TwoRowInputs, p \in RowPairs}
        \cup {Case(in[1], in[2], Individual(<<1, 2>>, TwoBounds(row, row)), TRUE) :
                in \in OneRowInputs, row \in {RowNatural, RowNotAKnot}}
        \cup {Case(in[1], in[2],
                   Individual(<<2, 1>>, [i \in Idx(2) |-> [r \in Idx(1) |-> row]]), FALSE) :
                in \in OneRowInputs, row \in {RowNatural, RowClamped}}
        \cup {Case(in[1], in[2], Individual(<<1, 3>>, UniformBounds(3, RowNatural)), TRUE) :
                in \in TwoRowInputs}

CasesBoundaries ==
    CasesIndividual
        \cup {Case(in[1], in[2], bc, TRUE) :
                in \in OneRowInputs \cup TwoRowInputs, bc \in {BNatural, BClamped}}

InitBoundaries == InitOf(CasesBoundaries)

SpecBoundaries == InitBoundaries /\ [][NextMidpoints]_vars

-----------------------------------------------------------------------------
(* Claims about the boundaries per row.                                    *)

\* The shape of the data with its leading axis replaced by 1.
ExpectedShape == <<1, ALen(data[0])>>

\* C4: with boundary = Individual(bounds), when the shape of bounds is not
\* the shape of the data with the leading axis replaced by 1, build returns
\* the ShapeError that carries the expected and the actual shape, and has
\* entered neither solve_for_k_individual, solve_for_k nor thomas; when the
\* shapes are equal build returns no ShapeError.
C4_IndividualShape ==
    (phase # "new" /\ boundary.kind = "Individual") =>
        IF boundary.bshape # ExpectedShape
        THEN /\ phase = "failed"
             /\ err = ShapeError(ExpectedShape, boundary.bshape)
             /\ calls = <<>>
             /\ systems = <<>>
             /\ a = NoArray /\ b = NoArray
        ELSE /\ err.kind # "ShapeError"
             /\ calls # <<>>

\* C4 witness: data of two rows with bounds of shape [1, 3].
C4_Witness ==
    /\ boundary.kind = "Individual" /\ ALen(data[0]) = 2
    /\ boundary.bshape = <<1, 3>>
    /\ phase = "failed" /\ err = ShapeError(<<1, 2>>, <<1, 3>>)

\* Natural written as SecondDeriv(0) and Clamped as FirstDeriv(0).
ExplicitSide(s) ==
    IF s.kind = "Natural" THEN SecondDeriv(zero)
    ELSE IF s.kind = "Clamped" THEN FirstDeriv(zero)
    ELSE s

\* The row boundary with the sides in sides ("left", "right") written
\* explicitly.
ExplicitRow(row, sides) ==
    LET l == IF row.kind = "Mixed" THEN row.left
             ELSE IF row.kind = "Natural" THEN SNatural
             ELSE IF row.kind = "Clamped" THEN SClamped ELSE SNotAKnot
        rt == IF row.kind = "Mixed" THEN row.right
              ELSE IF row.kind = "Natural" THEN SNatural
              ELSE IF row.kind = "Clamped" THEN SClamped ELSE SNotAKnot
    IN  IF row.kind = "NotAKnot" THEN row
        ELSE RowMixed(IF "left" \in sides THEN ExplicitSide(l) ELSE l,
                      IF "right" \in sides THEN ExplicitSide(rt) ELSE rt)

\* The boundary of the dataset, row by row.
RowsOf(bc, nr) ==
    IF bc.kind = "Individual" THEN bc.bounds[0]
    ELSE [r \in Idx(nr) |->
             IF bc.kind = "Natural" THEN RowNatural
             ELSE IF bc.kind = "Clamped" THEN RowClamped ELSE RowNotAKnot]

\* The Individual boundary that writes the sides pick[r] of row r
\* explicitly.
ExplicitBoundary(bc, nr, pick) ==
    Individual(<<1, nr>>,
               [i \in Idx(1) |-> [r \in Idx(nr) |-> ExplicitRow(RowsOf(bc, nr)[r], pick[r])]])

\* The systems of a build, one per row: a system solved for all rows at
\* once is split into its columns.
SystemsByRow(ss, nr) ==
    IF Len(ss) = nr THEN ss
    ELSE [j \in 1 .. nr |->
             System(ss[1].a_low, ss[1].a_mid, ss[1].a_up, Column(ss[1].rhs, j - 1))]

\* The build c has the systems and the coefficients of this build.
SameFit(c) ==
    /\ c.err = err
    /\ SystemsByRow(c.systems, ALen(data[0])) = SystemsByRow(systems, ALen(data[0]))
    /\ c.a = a
    /\ c.b = b

\* C5: with Natural replaced by SecondDeriv(0) and Clamped by FirstDeriv(0)
\* on any sides of any rows (for a dataset-wide Natural or Clamped: by the
\* Mixed boundary in every row), the build of the same coordinates and
\* data assembles the same bands and right-hand sides and produces the same
\* coefficients a and b.  It is stated of the state build leaves; no later
\* step writes systems, a or b.
C5_SpecializationEquivalence ==
    (phase = "built" /\ res = "none"
         /\ boundary.kind \in {"Individual", "Natural", "Clamped"}) =>
        \A pick \in [DOMAIN data[0] -> SUBSET {"left", "right"}] :
            SameFit(calc_coefficients(x, data,
                                      ExplicitBoundary(boundary, ALen(data[0]), pick)))

\* C5 witness: four samples built with the dataset-wide Natural boundary;
\* the system has the rows of SecondDeriv(0) at both ends.
C5_Witness ==
    /\ phase = "built" /\ res = "none" /\ boundary.kind = "Natural" /\ ALen(x) = 4
    /\ Len(systems) = 1
    /\ systems[1].a_mid[0] = RMul(two, Dx(x, 0))
    /\ systems[1].a_up[0] = Dx(x, 0)
    /\ systems[1].rhs[0] = [r \in DOMAIN data[0] |->
                               RMul(three, RSub(data[1][r], data[0][r]))]
    /\ \E i \in DOMAIN a : \E r \in DOMAIN a[i] : a[i][r] # zero

\* The dataset-wide boundary of the kind of the row boundary c.
DatasetWide(c) == BoundaryCondition(c.kind, <<>>, NoBounds)

\* C6: a build with Individual whose every row is the same uniform
\* condition c (NotAKnot, Natural or Clamped) has the coefficients a and b
\* of the build with the dataset-wide c, and so the same value at every
\* query.
C6_IndividualUniform ==
    \A c \in {RowNotAKnot, RowNatural, RowClamped} :
        (phase = "built" /\ boundary = IndividualAll(ALen(data[0]), c)) =>
            LET whole == calc_coefficients(x, data, DatasetWide(c))
            IN  /\ whole.err = NoErr
                /\ a = whole.a
                /\ b = whole.b
                /\ res = "Ok" => target = EvalRow(x, data, whole.a, whole.b, idx, xq)

\* C6 witness: two rows, both Clamped, evaluated at the midpoint of the
\* first segment.
C6_Witness ==
    /\ phase = "built" /\ boundary = IndividualAll(2, RowClamped)
    /\ res = "Ok" /\ query = RDiv(RAdd(x[0], x[1]), two)
    /\ target[0] # target[1]

\* The derivatives of row r of the fitted spline at the two ends.
FirstDerivLeft(r) ==
    RDiv(RAdd(RSub(data[1][r], data[0][r]), a[0][r]), Dx(x, 0))
FirstDerivRight(r) ==
    LET n == ALen(x) - 2
    IN  RDiv(RSub(RSub(data[n + 1][r], data[n][r]), b[n][r]), Dx(x, n))
SecondDerivLeft(r) ==
    RDiv(RMul(two, RSub(b[0][r], RMul(two, a[0][r]))), RSq(Dx(x, 0)))
SecondDerivRight(r) ==
    LET n == ALen(x) - 2
    IN  RDiv(RMul(two, RSub(a[n][r], RMul(two, b[n][r]))), RSq(Dx(x, n)))

\* C7: in a row whose left (right) side is FirstDeriv(v) the first
\* derivative of the fitted spline at x[0] (x[len-1]) is v, and for
\* SecondDeriv(v) the second derivative there is v, whatever the boundary
\* of the other side.
C7_PrescribedDerivatives ==
    (phase = "built" /\ boundary.kind = "Individual") =>
        \A r \in DOMAIN data[0] :
            LET row == boundary.bounds[0][r]
            IN  row.kind = "Mixed" =>
                    /\ row.left.kind = "FirstDeriv" => FirstDerivLeft(r) = row.left.v
                    /\ row.right.kind = "FirstDeriv" => FirstDerivRight(r) = row.right.v
                    /\ row.left.kind = "SecondDeriv" => SecondDerivLeft(r) = row.left.v
                    /\ row.right.kind = "SecondDeriv" => SecondDerivRight(r) = row.right.v

-----------------------------------------------------------------------------
(* What interp_into leaves alone.                                          *)

\* C11: a call of interp_into on the built strategy changes neither the
\* coefficients a and b, the mode, the coordinates nor the data, so after
\* any sequence of calls they are what build left; a call that returns
\* OutOfBounds leaves the target row as it was, too.
C11_EvaluationFrame ==
    [][phase = "built" =>
          /\ a' = a /\ b' = b /\ mode' = mode
          /\ x' = x /\ data' = data
          /\ phase' = "built"
          /\ res' = "OutOfBounds" => target' = target]_vars

\* C11 witness: a call returned OutOfBounds and the target still holds the
\* value that an earlier call wrote for another coordinate.
C11_Witness ==
    /\ phase = "built" /\ res = "OutOfBounds"
    /\ xq # query
    /\ target = EvalRow(x, data, a, b, idx, xq)
    /\ \E r \in DOMAIN target : target[r] # zero
    /\ a = CoeffA(x, data, k) /\ b = CoeffB(x, data, k)

-----------------------------------------------------------------------------
(* The systems that build hands to thomas, for every kind of boundary.     *)

CasesSystems ==
    CasesBoundaries
        \cup {Case(in[1], in[2], bc, TRUE) :
                in \in GridInputs, bc \in {BPeriodic, BNotAKnot}}

InitSystems == InitOf(CasesSystems)

SpecSystems == InitSystems /\ [][NextMidpoints]_vars

\* dy(n) of row r
Dy(r, n) == RSub(data[n + 1][r], data[n][r])

\* The right-hand side of the continuity equation at the interior sample n.
ContinuityRhs(r, n) ==
    RMul(three, RAdd(RDiv(RMul(Dx(x, n), Dy(r, n - 1)), Dx(x, n - 1)),
                     RDiv(RMul(Dx(x, n - 1), Dy(r, n)), Dx(x, n))))

\* The build solved one full system of len equations for every row.
FullSystems == phase = "built" /\ boundary.kind # "Periodic"

\* C12: in every interior row n (1 <= n <= len-2) of the assembled system
\* a_low[n] = dx(n), a_mid[n] = 2(dx(n) + dx(n-1)), a_up[n] = dx(n-1) and
\* rhs[n] = 3(dx(n) dy(n-1)/dx(n-1) + dx(n-1) dy(n)/dx(n)): the
\* sub-diagonal has the width of the segment to the right and the
\* super-diagonal that of the segment to the left.
C12_InteriorRows ==
    FullSystems =>
        \A r \in DOMAIN data[0] : \A n \in 1 .. (ALen(x) - 2) :
            LET sys == SystemsByRow(systems, ALen(data[0]))[r + 1]
            IN  /\ sys.a_low[n] = Dx(x, n)
                /\ sys.a_mid[n] = RMul(two, RAdd(Dx(x, n), Dx(x, n - 1)))
                /\ sys.a_up[n] = Dx(x, n - 1)
                /\ sys.rhs[n][0] = ContinuityRhs(r, n)

\* C12 as the specification states it: a_low[n] = dx(n-1) and
\* a_up[n] = dx(n), the other two as above.
C12_InteriorRowsAsStated ==
    FullSystems =>
        \A r \in DOMAIN data[0] : \A n \in 1 .. (ALen(x) - 2) :
            LET sys == SystemsByRow(systems, ALen(data[0]))[r + 1]
            IN  /\ sys.a_low[n] = Dx(x, n - 1)
                /\ sys.a_mid[n] = RMul(two, RAdd(Dx(x, n), Dx(x, n - 1)))
                /\ sys.a_up[n] = Dx(x, n)
                /\ sys.rhs[n][0] = ContinuityRhs(r, n)

\* C12 witness: segments of different widths, and a row of the right-hand
\* side that is not zero.
C12_Witness ==
    /\ FullSystems /\ Len(systems) = 1
    /\ Dx(x, 0) # Dx(x, 1)
    /\ systems[1].a_low[1] = Dx(x, 1) /\ systems[1].a_up[1] = Dx(x, 0)
    /\ systems[1].rhs[1][0] # zero

\* |a|
RAbs(v) == <<Abs(v[1]), v[2]>>

\* Row i of the system sys is diagonally dominant.
Dominant(sys, i) ==
    RLe(RAdd(RAbs(sys.a_low[i]), RAbs(sys.a_up[i])), RAbs(sys.a_mid[i]))

\* The row boundary of the j-th system that the build solved.
RowOfSystem(j) ==
    IF boundary.kind = "Individual" THEN boundary.bounds[0][j - 1]
    ELSE RowsOf(boundary, 1)[0]

LeftKind(row) == IF row.kind = "Mixed" THEN row.left.kind ELSE row.kind
RightKind(row) == IF row.kind = "Mixed" THEN row.right.kind ELSE row.kind

\* Row i of the j-th system is the row of a NotAKnot side, written by the
\* arm for Mixed boundaries (and not by the arm for the parabola).
NotAKnotEnd(j, i) ==
    /\ boundary.kind # "Periodic"
    /\ \/ i = 0 /\ LeftKind(RowOfSystem(j)) = "NotAKnot"
       \/ i = ALen(x) - 1 /\ RightKind(RowOfSystem(j)) = "NotAKnot"
    /\ ~(/\ ALen(x) = 3
         /\ LeftKind(RowOfSystem(j)) = "NotAKnot"
         /\ RightKind(RowOfSystem(j)) = "NotAKnot")

-----------------------------------------------------------------------------
(* thomas on its own: the state holds the system of one call in systems    *)
(* and the array the call wrote in k; there is no builder.                 *)

\* The entries of the diagonal and of the two bands beside it.
DiagVals == {R(-1)} \cup {R(v) : v \in 1 .. (MaxVal + 1)}

BandVals == {R(v) : v \in 0 .. MaxVal}

\* The bands of n equations; a_low[0] and a_up[n-1] are outside of the
\* matrix and zero, as solve_for_k leaves them.
Bands(n) ==
    {[a_low |-> [i \in Idx(n) |-> IF i = 0 THEN zero ELSE lo[i]],
      a_mid |-> mi,
      a_up |-> [i \in Idx(n) |-> IF i = n - 1 THEN zero ELSE up[i]]] :
        lo \in [1 .. (n - 1) -> BandVals], mi \in [Idx(n) -> DiagVals],
        up \in [Idx(n - 1) -> BandVals]}

\* A right-hand side of two rows: 1, 2, .. and a spike in the first
\* equation.
TwoRowRhs(n) == TwoRows([i \in Idx(n) |-> R(i + 1)], Spike(n, 0, one))

ThomasSizes == (MINIMUM_DATA_LENGHT - 1) .. MINIMUM_DATA_LENGHT

ThomasInputs ==
    UNION {{System(bd.a_low, bd.a_mid, bd.a_up, TwoRowRhs(n)) : bd \in Bands(n)} :
           n \in ThomasSizes}

InitThomas ==
    \E sys \in ThomasInputs :
        /\ systems = <<sys>>
        /\ k = Zeros2(ALen(sys.rhs), ALen(sys.rhs[0]))
        /\ calls = <<>>
        /\ phase = "system"
        /\ x = NoArray /\ data = NoArray
        /\ boundary = BNotAKnot /\ extrapolate = FALSE
        /\ err = NoErr /\ a = NoArray /\ b = NoArray /\ mode = "none"
        /\ query = zero /\ xq = zero /\ idx = 0 /\ target = NoArray
        /\ res = "none"

\* Self::thomas(k, a_up, a_mid, a_low, rhs)
ThomasCall(sys) ==
    /\ phase = "system"
    /\ k' = thomas(sys.a_up, sys.a_mid, sys.a_low, sys.rhs)
    /\ calls' = <<"thomas">>
    /\ phase' = "solved"
    /\ UNCHANGED <<builder, err, a, b, mode, systems, lastEval>>

NextThomas == ThomasCall(systems[1])

SpecThomas == InitThomas /\ [][NextThomas]_vars

\* The pivots of the forward elimination of sys.
Pivots(sys) ==
    LET p[i \in DOMAIN sys.a_mid] ==
            IF i = 0 THEN sys.a_mid[0]
            ELSE RSub(sys.a_mid[i],
                      RMul(RDiv(sys.a_low[i], p[i - 1]), sys.a_up[i - 1]))
    IN  p

PivotsNonzero(sys) ==
    \A i \in DOMAIN sys.a_mid : IsFinite(Pivots(sys)[i]) /\ Pivots(sys)[i] # zero

\* The left-hand side of equation i of A * kk = rhs, for the row r.
LeftHandSide(sys, kk, i, r) ==
    LET n == ALen(sys.a_mid)
    IN  RAdd(RAdd(IF i = 0 THEN zero ELSE RMul(sys.a_low[i], kk[i - 1][r]),
                  RMul(sys.a_mid[i], kk[i][r])),
             IF i = n - 1 THEN zero ELSE RMul(sys.a_up[i], kk[i + 1][r]))

\* C14: when no pivot of the forward elimination is zero, the k that
\* thomas wrote solves every equation of A * k = rhs in every row of the
\* right-hand side, and the solution of a row is the one thomas writes for
\* that row alone.
C14_ThomasSolves ==
    (phase = "solved" /\ PivotsNonzero(systems[1])) =>
        LET sys == systems[1]
        IN  \A r \in DOMAIN sys.rhs[0] :
                /\ \A i \in DOMAIN sys.a_mid :
                       LeftHandSide(sys, k, i, r) = sys.rhs[i][r]
                /\ Column(k, r) =
                       thomas(sys.a_up, sys.a_mid, sys.a_low, Column(sys.rhs, r))

\* C14 witness: three equations with a negative entry on the diagonal and
\* a row that is not diagonally dominant, solved.
C14_Witness ==
    /\ phase = "solved" /\ ALen(k) = 3 /\ PivotsNonzero(systems[1])
    /\ systems[1].a_mid[1] = R(-1)
    /\ systems[1].a_low[1] = one /\ systems[1].a_up[1] = one
    /\ systems[1].a_up[0] # zero /\ systems[1].a_low[2] # zero
    /\ \A i \in DOMAIN k : k[i][0] # k[i][1]

-----------------------------------------------------------------------------
(* Periodic boundaries on grids with segments of unequal widths.           *)

\* Coordinates of four and of five samples whose segments differ in width.
UnevenXs == {Arr(<<R(0), R(1), R(3), R(6)>>), Arr(<<R(0), R(2), R(3), R(4), R(6)>>)}

UnevenInputs ==
    UNION {{<<cx, cd>> : cd \in DataArrays(ALen(cx))} : cx \in UnevenXs}

CasesClosure ==
    {Case(in[1], in[2], BPeriodic, FALSE) : in \in GridInputs \cup UnevenInputs}

InitClosure == InitOf(CasesClosure)

SpecClosure == InitClosure /\ [][NextMidpoints]_vars

\* The continuity equation at the sample n of the row r, whose neighbours
\* are the samples p (left) and q (right) and whose segments are sl (left)
\* and sr (right).
ContinuityAt(r, n, p, q, sl, sr) ==
    RAdd(RAdd(RMul(Dx(x, sr), k[p][r]),
              RMul(RMul(two, RAdd(Dx(x, sl), Dx(x, sr))), k[n][r])),
         RMul(Dx(x, sl), k[q][r]))
      = RMul(three, RAdd(RDiv(RMul(Dx(x, sr), Dy(r, sl)), Dx(x, sl)),
                         RDiv(RMul(Dx(x, sl), Dy(r, sr)), Dx(x, sr))))

\* C15: after a build with boundary = Periodic (the samples at both ends
\* being equal) the slopes at both ends are equal, the continuity equation
\* holds at x[0] with the last segment as its left neighbour and at every
\* interior sample, and the second derivative of the spline at x[0] is the
\* one at x[len-1].
C15_PeriodicClosure ==
    (phase = "built" /\ boundary.kind = "Periodic") =>
        LET len == ALen(x)
        IN  \A r \in DOMAIN data[0] :
                /\ k[0][r] = k[len - 1][r]
                /\ ContinuityAt(r, 0, len - 2, 1, len - 2, 0)
                /\ \A n \in 1 .. (len - 2) : ContinuityAt(r, n, n - 1, n + 1, n - 1, n)
                /\ SecondDerivLeft(r) = SecondDerivRight(r)

\* C15 witness: a periodic build over four samples with three different
\* segment widths, two rows, and slopes that are not zero.
C15_Witness ==
    /\ phase = "built" /\ boundary.kind = "Periodic"
    /\ ALen(x) = 4 /\ ALen(data[0]) = 2
    /\ Dx(x, 0) # Dx(x, 1) /\ Dx(x, 1) # Dx(x, 2) /\ Dx(x, 0) # Dx(x, 2)
    /\ calls = <<"solve_for_k", "thomas", "thomas">>
    /\ k[0] = k[3] /\ k[0][0] # zero /\ k[1][0] # k[2][0] /\ k[0][1] # zero

-----------------------------------------------------------------------------
(* The arms of the matches that are marked unreachable!().                 *)

\* The boundaries that the build hands to solve_for_k: the one of the
\* dataset, or one for every row of an Individual array of the right shape.
HandedToSolve ==
    IF boundary.kind = "Individual"
    THEN IF boundary.bshape = ExpectedShape
         THEN {FromRowBoundary(boundary.bounds[0][r]) : r \in DOMAIN data[0]}
         ELSE {}
    ELSE {DatasetBoundary(boundary)}

\* The sides that the rows 0 and len-1 of the system are matched on.
SidesMatched(ib) ==
    IF InternalSpecialize(ib).kind = "Mixed"
    THEN {SingleSpecialize(InternalSpecialize(ib).left),
          SingleSpecialize(InternalSpecialize(ib).right)}
    ELSE {}

\* C16: a build executes no unreachable!(): every boundary handed to
\* solve_for_k is Periodic or Mixed after InternalBoundary::specialize, both
\* sides of a Mixed are NotAKnot, FirstDeriv or SecondDeriv after
\* SingleBoundary::specialize, and an Individual array of the right shape
\* has a first element.
C16_NoUnreachable ==
    /\ phase # "panicked"
    /\ \A ib \in HandedToSolve :
           /\ InternalSpecialize(ib).kind \in {"Periodic", "Mixed"}
           /\ \A sd \in SidesMatched(ib) :
                  sd.kind \in {"NotAKnot", "FirstDeriv", "SecondDeriv"}
    /\ (boundary.kind = "Individual" /\ boundary.bshape = ExpectedShape) =>
           ALen(boundary.bounds) = 1 /\ 0 \in DOMAIN boundary.bounds[0]

\* C16 witness: a build with Individual boundaries for two rows, a
\* Mixed(Clamped, SecondDeriv) and a Clamped, that called solve_for_k for
\* both rows.
C16_Witness ==
    /\ phase = "built" /\ boundary.kind = "Individual"
    /\ boundary.bshape = <<1, 2>> /\ ALen(data[0]) = 2
    /\ boundary.bounds[0][0].kind = "Mixed"
    /\ boundary.bounds[0][0].left.kind = "Clamped"
    /\ boundary.bounds[0][0].right.kind = "SecondDeriv"
    /\ boundary.bounds[0][1].kind = "Clamped"
    /\ Len(systems) = 2
    /\ calls = <<"solve_for_k_individual", "solve_for_k_individual", "solve_for_k",
                 "thomas", "solve_for_k_individual", "solve_for_k", "thomas">>

-----------------------------------------------------------------------------
(* The divisors of a build.                                                *)

\* The denominator of k_m1 in the row r of a Periodic build of more than
\* three samples; k2 is the solution of the second system of the build.
CorrectionDenominator(r) ==
    LET len == ALen(x)
        k2 == thomas(systems[2].a_up, systems[2].a_mid, systems[2].a_low,
                     systems[2].rhs)
    IN  RAdd(RAdd(RMul(k2[0][r], Dx(x, len - 3)), RMul(k2[len - 3][r], Dx(x, len - 2))),
             RMul(two, RAdd(Dx(x, len - 2), Dx(x, len - 3))))

\* C17: in every system a build handed to thomas each divisor, the a_mid of
\* a row after the elimination steps above it, is nonzero, and so is the
\* denominator of the periodic correction.
C17_DivisorsNonzero ==
    phase = "built" =>
        /\ \A j \in DOMAIN systems : PivotsNonzero(systems[j])
        /\ (boundary.kind = "Periodic" /\ ALen(x) > 3) =>
               \A r \in DOMAIN data[0] :
                   IsFinite(CorrectionDenominator(r)) /\ CorrectionDenominator(r) # zero

=============================================================================
